---- MODULE Spec2Model ----
(***************************************************************************)
(* Model of speedread_web.py: the server-side text pipeline                *)
(* (tokenize_for_rsvp, api_extract, build_payload) and the client-side     *)
(* RSVP playback controller embedded in HTML_PAGE (buildChunksClient,      *)
(* rebuildRSVP, renderRSVP, currentDelayMs, scheduleNextTick, setPlaying,  *)
(* loadFile and the event wiring).                                         *)
(*                                                                         *)
(* Text, tokens and chunks are strings; a character is a string of length  *)
(* one.  Pause multipliers are kept in hundredths (2.2 is 220).            *)
(***************************************************************************)
EXTENDS Integers, Sequences, FiniteSets, TLC

(***************************************************************************)
(* Generic helpers                                                         *)
(***************************************************************************)
Max(a, b) == IF a >= b THEN a ELSE b

Min(a, b) == IF a <= b THEN a ELSE b

\* s[i] of a string, "" when i is out of range
CharAt(s, i) == IF i >= 1 /\ i <= Len(s) THEN SubSeq(s, i, i) ELSE ""

\* s[i:] of a string (1-based)
StrFrom(s, i) == SubSeq(s, i, Len(s))

StartsWithAt(s, i, p) == /\ i + Len(p) - 1 <= Len(s)
                         /\ SubSeq(s, i, i + Len(p) - 1) = p

\* String.prototype.includes / Python "in"
Includes(s, p) == \E i \in 1..Len(s) : StartsWithAt(s, i, p)

EndsWith(s, p) == /\ Len(p) <= Len(s)
                  /\ SubSeq(s, Len(s) - Len(p) + 1, Len(s)) = p

LowerLetters == {"a","b","c","d","e","f","g","h","i","j","k","l","m",
                 "n","o","p","q","r","s","t","u","v","w","x","y","z"}

UpperLetters == {"A","B","C","D","E","F","G","H","I","J","K","L","M",
                 "N","O","P","Q","R","S","T","U","V","W","X","Y","Z"}

Digits == {"0","1","2","3","4","5","6","7","8","9"}

\* [A-Za-z0-9]
AlnumChars == LowerLetters \cup UpperLetters \cup Digits

IsAlnum(c) == c \in AlnumChars

\* \w of a JavaScript regular expression without the u flag
IsWordChar(c) == IsAlnum(c) \/ c = "_"

\* \s
SpaceChars == {" ", "\n", "\t", "\r"}

IsSpaceChar(c) == c \in SpaceChars

\* case folding of the letters the URL and file name patterns name
LowerCase(c) == CASE c = "H" -> "h" [] c = "T" -> "t" [] c = "P" -> "p"
                  [] c = "S" -> "s" [] c = "W" -> "w" [] c = "D" -> "d"
                  [] c = "F" -> "f" [] c = "E" -> "e" [] c = "U" -> "u"
                  [] c = "B" -> "b" [] OTHER -> c

RECURSIVE ToLower(_)
ToLower(s) == IF s = "" THEN "" ELSE LowerCase(CharAt(s, 1)) \o ToLower(Tail(s))

\* number of consecutive characters from position i on that belong to S
RECURSIVE RunLen(_, _, _)
RunLen(s, i, S) == IF i <= Len(s) /\ CharAt(s, i) \in S
                   THEN 1 + RunLen(s, i + 1, S)
                   ELSE 0

(***************************************************************************)
(* Server: TOKEN_RE, split_preserving_whitespace, tokenize_for_rsvp        *)
(***************************************************************************)
PARA == "<PARA>"

\* The dashes and the curly quotes of TOKEN_RE.  A TLA+ string holds Latin-1
\* characters only, so each is written as a Latin-1 character that occurs
\* nowhere in the source and is handled only through these names.
EmDash == "¯"

EnDash == "¬"

LeftDoubleQuote == "«"

RightDoubleQuote == "»"

LeftSingleQuote == "¨"

RightSingleQuote == "´"

TrailingPunct == {".", ",", ";", ":", "!", "?", "...", EmDash, EnDash}

OpenerChars == {"\"", LeftDoubleQuote, RightDoubleQuote, "'", LeftSingleQuote,
                RightSingleQuote, "(", "[", "{", "/", "\\"}

CloserChars == {")", "]", "}"}

\* alternative 5 of TOKEN_RE
PunctChars == {".", ",", ";", ":", "!", "?", "(", ")", "[", "]", "{", "}",
               "\"", LeftDoubleQuote, RightDoubleQuote, "'", LeftSingleQuote,
               RightSingleQuote, "/", "\\"}

\* (?:X[A-Za-z0-9]+)* starting at i, X one of the separator characters sep
RECURSIVE GroupsLen(_, _, _)
GroupsLen(s, i, sep) ==
    IF CharAt(s, i) \in sep /\ IsAlnum(CharAt(s, i + 1))
    THEN LET n == 1 + RunLen(s, i + 1, AlnumChars)
         IN  n + GroupsLen(s, i + n, sep)
    ELSE 0

\* alternative 2 of TOKEN_RE:
\* [A-Za-z0-9]+(?:['’][A-Za-z0-9]+)*(?:-[A-Za-z0-9]+)*
WordLen(s, i) ==
    LET n1 == RunLen(s, i, AlnumChars)
        n2 == GroupsLen(s, i + n1, {"'", RightSingleQuote})
        n3 == GroupsLen(s, i + n1 + n2, {"-"})
    IN  n1 + n2 + n3

\* length of the TOKEN_RE match that starts at position i
MatchLen(s, i) ==
    LET c == CharAt(s, i)
    IN  IF c = "\n" /\ CharAt(s, i + 1) = "\n" THEN RunLen(s, i, {"\n"})
        ELSE IF IsAlnum(c) THEN WordLen(s, i)
        ELSE IF StartsWithAt(s, i, "...") THEN 3
        ELSE IF c \in PunctChars THEN 1
        ELSE IF IsSpaceChar(c) THEN RunLen(s, i, SpaceChars)
        ELSE 1

RECURSIVE SplitFrom(_, _)
SplitFrom(s, i) ==
    IF i > Len(s) THEN <<>>
    ELSE LET n == MatchLen(s, i)
         IN  <<SubSeq(s, i, i + n - 1)>> \o SplitFrom(s, i + n)

split_preserving_whitespace(text) == SplitFrom(text, 1)

\* str.isspace()
IsSpace(tok) == tok # "" /\ \A i \in 1..Len(tok) : IsSpaceChar(CharAt(tok, i))

\* str.strip()
Strip(s) ==
    LET lead  == RunLen(s, 1, SpaceChars)
        body  == StrFrom(s, lead + 1)
        last  == IF \E i \in 1..Len(body) : ~IsSpaceChar(CharAt(body, i))
                 THEN CHOOSE i \in 1..Len(body) :
                        /\ ~IsSpaceChar(CharAt(body, i))
                        /\ \A j \in (i + 1)..Len(body) : IsSpaceChar(CharAt(body, j))
                 ELSE 0
    IN  SubSeq(body, 1, last)

\* flush_current: the pair <<tokens, current>> after the call
flush_current(tokens, current) ==
    IF Strip(current) # "" THEN <<Append(tokens, Strip(current)), "">>
    ELSE <<tokens, "">>

\* tokens[-1] += tok
AppendToLast(tokens, tok) ==
    [tokens EXCEPT ![Len(tokens)] = tokens[Len(tokens)] \o tok]

\* an iteration whose punctuation branches never extend the last token
TokenizeStepNoAttach(tokens, current, tok) ==
    IF IsSpace(tok) THEN
        IF Includes(tok, "\n\n")
        THEN LET f == flush_current(tokens, current)
             IN  <<Append(f[1], PARA), f[2]>>
        ELSE flush_current(tokens, current)
    ELSE IF tok \in TrailingPunct \/ tok \in CloserChars THEN
        IF current # "" THEN flush_current(tokens, current \o tok)
        ELSE <<Append(tokens, tok), current>>
    ELSE IF tok \in OpenerChars THEN <<tokens, current \o tok>>
    ELSE flush_current(tokens, current \o tok)

\* one iteration of the loop of tokenize_for_rsvp over the raw pieces
TokenizeStep(tokens, current, tok) ==
    IF IsSpace(tok) THEN
        IF Includes(tok, "\n\n")
        THEN LET f == flush_current(tokens, current)
             IN  <<Append(f[1], PARA), f[2]>>
        ELSE flush_current(tokens, current)
    ELSE IF tok \in TrailingPunct \/ tok \in CloserChars THEN
        IF current # "" THEN flush_current(tokens, current \o tok)
        ELSE IF tokens # <<>> /\ tokens[Len(tokens)] # PARA
        THEN <<AppendToLast(tokens, tok), current>>
        ELSE <<Append(tokens, tok), current>>
    ELSE IF tok \in OpenerChars THEN <<tokens, current \o tok>>
    ELSE flush_current(tokens, current \o tok)

RECURSIVE TokenizeLoop(_, _, _, _)
TokenizeLoop(raw, k, tokens, current) ==
    IF k > Len(raw) THEN flush_current(tokens, current)[1]
    ELSE LET r == TokenizeStep(tokens, current, raw[k])
         IN  TokenizeLoop(raw, k + 1, r[1], r[2])

\* the final pass that collapses consecutive paragraph markers
RECURSIVE Compact(_, _)
Compact(tokens, acc) ==
    IF tokens = <<>> THEN acc
    ELSE IF Head(tokens) = PARA /\ acc # <<>> /\ acc[Len(acc)] = PARA
         THEN Compact(Tail(tokens), acc)
         ELSE Compact(Tail(tokens), Append(acc, Head(tokens)))

tokenize_for_rsvp(text) ==
    Compact(TokenizeLoop(split_preserving_whitespace(text), 1, <<>>, ""), <<>>)

(***************************************************************************)
(* Client: isUrlLike, buildChunksClient                                    *)
(***************************************************************************)
\* a pattern that lacks the www alternative
isUrlLikeNoWww(s) ==
    LET l == ToLower(s)
        FollowedByNonSpace(i, p) ==
            /\ StartsWithAt(l, i, p)
            /\ i + Len(p) <= Len(l)
            /\ ~IsSpaceChar(CharAt(l, i + Len(p)))
    IN  \E i \in 1..Len(l) : \/ FollowedByNonSpace(i, "http://")
                             \/ FollowedByNonSpace(i, "https://")

\* /(https?:\/\/\S+|www\.\S+)/i.test(s)
isUrlLike(s) ==
    LET l == ToLower(s)
        FollowedByNonSpace(i, p) ==
            /\ StartsWithAt(l, i, p)
            /\ i + Len(p) <= Len(l)
            /\ ~IsSpaceChar(CharAt(l, i + Len(p)))
    IN  \E i \in 1..Len(l) : \/ FollowedByNonSpace(i, "http://")
                             \/ FollowedByNonSpace(i, "https://")
                             \/ FollowedByNonSpace(i, "www.")

\* Array.prototype.filter
RECURSIVE FilterUrls(_)
FilterUrls(tokens) ==
    IF tokens = <<>> THEN <<>>
    ELSE IF Head(tokens) = PARA \/ ~isUrlLike(Head(tokens))
         THEN <<Head(tokens)>> \o FilterUrls(Tail(tokens))
         ELSE FilterUrls(Tail(tokens))

\* current.join("")
RECURSIVE JoinNoSpace(_)
JoinNoSpace(current) ==
    IF current = <<>> THEN ""
    ELSE current[1] \o JoinNoSpace(Tail(current))

\* current.join(" ")
RECURSIVE Join(_)
Join(current) ==
    IF current = <<>> THEN ""
    ELSE IF Len(current) = 1 THEN current[1]
    ELSE current[1] \o " " \o Join(Tail(current))

\* /[.!?;:]$/.test(tok)
EndsPhrase(tok) == CharAt(tok, Len(tok)) \in {".", "!", "?", ";", ":"}

\* a loop whose paragraph branch emits the marker and keeps the accumulator
RECURSIVE GroupLoopNoParaFlush(_, _, _, _, _, _)
GroupLoopNoParaFlush(filtered, k, chunks, current, limit, phraseMode) ==
    IF k > Len(filtered)
    THEN IF current # <<>> THEN Append(chunks, Join(current)) ELSE chunks
    ELSE LET tok == filtered[k]
         IN  IF tok = PARA
             THEN GroupLoopNoParaFlush(filtered, k + 1, Append(chunks, PARA),
                                       current, limit, phraseMode)
             ELSE LET cur == Append(current, tok)
                  IN  IF (phraseMode /\ EndsPhrase(tok)) \/ Len(cur) >= limit
                      THEN GroupLoopNoParaFlush(filtered, k + 1,
                                                Append(chunks, Join(cur)),
                                                <<>>, limit, phraseMode)
                      ELSE GroupLoopNoParaFlush(filtered, k + 1, chunks, cur,
                                                limit, phraseMode)

\* the two grouping loops of buildChunksClient; they differ in the limit and
\* in the early flush of phrase mode
RECURSIVE GroupLoop(_, _, _, _, _, _)
GroupLoop(filtered, k, chunks, current, limit, phraseMode) ==
    IF k > Len(filtered)
    THEN IF current # <<>> THEN Append(chunks, Join(current)) ELSE chunks
    ELSE LET tok == filtered[k]
         IN  IF tok = PARA
             THEN GroupLoop(filtered, k + 1,
                            Append(IF current # <<>>
                                   THEN Append(chunks, Join(current))
                                   ELSE chunks, PARA),
                            <<>>, limit, phraseMode)
             ELSE LET cur == Append(current, tok)
                  IN  IF (phraseMode /\ EndsPhrase(tok)) \/ Len(cur) >= limit
                      THEN GroupLoop(filtered, k + 1, Append(chunks, Join(cur)),
                                     <<>>, limit, phraseMode)
                      ELSE GroupLoop(filtered, k + 1, chunks, cur, limit, phraseMode)

buildChunksClient(tokens, chunkSize, phraseMode, skipUrls) ==
    LET filtered == IF skipUrls THEN FilterUrls(tokens) ELSE tokens
    IN  IF filtered = <<>> THEN <<>>
        ELSE GroupLoop(filtered, 1, <<>>, <<>>,
                       IF phraseMode THEN Max(3, chunkSize) ELSE Max(1, chunkSize),
                       phraseMode)

\* Server: build_chunks, the same grouping in Python
build_chunks(tokens, chunk_size, phrase_mode, skip_urls) ==
    LET filtered == IF skip_urls THEN FilterUrls(tokens) ELSE tokens
    IN  IF filtered = <<>> THEN <<>>
        ELSE GroupLoop(filtered, 1, <<>>, <<>>,
                       IF phrase_mode THEN Max(3, chunk_size) ELSE Max(1, chunk_size),
                       phrase_mode)

(***************************************************************************)
(* Client: estimatePauseMultiplier, currentDelayMs                         *)
(***************************************************************************)
\* clamp without its upper limit
clampNoUpper(n, lo, hi) == Max(lo, n)

clamp(n, lo, hi) == Max(lo, Min(hi, n))

\* the closing characters ['”’)\]] of the pause patterns
PauseClosers == {"'", RightDoubleQuote, RightSingleQuote, ")", "]"}

\* the character in front of the trailing run of closers
RECURSIVE LastBeforeClosers(_)
LastBeforeClosers(chunk) ==
    IF chunk = "" THEN ""
    ELSE IF CharAt(chunk, Len(chunk)) \in PauseClosers
         THEN LastBeforeClosers(SubSeq(chunk, 1, Len(chunk) - 1))
         ELSE CharAt(chunk, Len(chunk))

\* multipliers in hundredths
estimatePauseMultiplier(chunk, commaMult, sentenceMult, paraMult) ==
    IF chunk = PARA THEN Max(100, paraMult)
    ELSE LET m1 == IF LastBeforeClosers(chunk) \in {".", "!", "?"}
                   THEN Max(100, sentenceMult)
                   ELSE IF LastBeforeClosers(chunk) \in {",", ";", ":"}
                        THEN Max(100, commaMult)
                        ELSE 100
         IN  IF Includes(chunk, "...") THEN Max(m1, commaMult + 25) ELSE m1

\* Server: the same rule in Python, multipliers in hundredths
estimate_pause_multiplier(chunk, comma_mult, sentence_mult, para_mult) ==
    IF chunk = PARA THEN Max(100, para_mult)
    ELSE LET m1 == IF LastBeforeClosers(chunk) \in {".", "!", "?"}
                   THEN Max(100, sentence_mult)
                   ELSE IF LastBeforeClosers(chunk) \in {",", ";", ":"}
                        THEN Max(100, comma_mult)
                        ELSE 100
         IN  IF Includes(chunk, "...") THEN Max(m1, comma_mult + 25) ELSE m1

\* (chunk.match(/\b\w+\b/g) || []).length: the maximal runs of word characters
WordCount(chunk) ==
    Cardinality({i \in 1..Len(chunk) :
                    /\ IsWordChar(CharAt(chunk, i))
                    /\ ~IsWordChar(CharAt(chunk, i - 1))})

\* Math.max(20, Math.floor(delay)), the product taken exactly; the pause
\* inputs are in hundredths
currentDelayMs(st) ==
    IF st.chunks = <<>> THEN 100
    ELSE LET chunk == st.chunks[st.rsvpIndex + 1]
             wpm == clamp(st.wpmInput, 50, 3000)
             commaPause == clamp(st.commaPauseInput, 100, 1000)
             sentencePause == clamp(st.sentencePauseInput, 100, 1000)
             paraPause == clamp(st.paraPauseInput, 100, 2000)
             wordsInChunk == Max(1, WordCount(chunk))
             mult == estimatePauseMultiplier(chunk, commaPause, sentencePause, paraPause)
         IN  Max(20, (60000 * wordsInChunk * mult) \div (wpm * 100))

(***************************************************************************)
(* Optimal recognition point: compute_orp_index (server), computeOrpIndex, *)
(* pickFocusWord, buildOrpPlaceholder (client)                             *)
(***************************************************************************)
\* the letters outside ASCII that occur in the words of the model
NonAsciiLetters == {"é"}

\* \w of Python's re under re.UNICODE
PyWordChars == AlnumChars \cup {"_"} \cup NonAsciiLetters

\* the characters str.isalnum() accepts
PyAlnumChars == AlnumChars \cup NonAsciiLetters

\* \w of a JavaScript pattern without the i flag, and /[0-9A-Za-z]/
JsWordChars == AlnumChars \cup {"_"}

\* number of characters of s from position i on that come before the first
\* character of S
RECURSIVE LeadLen(_, _, _)
LeadLen(s, i, S) ==
    IF i <= Len(s) /\ CharAt(s, i) \notin S THEN 1 + LeadLen(s, i + 1, S) ELSE 0

\* number of characters at the end of s, up to position i, that come after
\* the last character of S
RECURSIVE TrailLen(_, _, _)
TrailLen(s, i, S) ==
    IF i >= 1 /\ CharAt(s, i) \notin S THEN 1 + TrailLen(s, i - 1, S) ELSE 0

\* re.sub(r"^[^\w]+|[^\w]+$", "", word) and word.replace(/^[^\w]+|[^\w]+$/gu, "")
StripEdges(word, S) ==
    LET lead == LeadLen(word, 1, S)
    IN  IF lead = Len(word) THEN ""
        ELSE SubSeq(word, lead + 1, Len(word) - TrailLen(word, Len(word), S))

\* the if/elif ladder over the length of the core
OrpBucket(coreLen) ==
    IF coreLen <= 1 THEN 0
    ELSE IF coreLen <= 5 THEN 1
    ELSE IF coreLen <= 9 THEN 2
    ELSE IF coreLen <= 13 THEN 3
    ELSE 4

\* Server
compute_orp_index(word) ==
    IF word = "" THEN 0
    ELSE LET core == StripEdges(word, PyWordChars)
             core_len == IF core # "" THEN Len(core) ELSE Len(word)
             idx == OrpBucket(core_len)
             leading == LeadLen(word, 1, PyAlnumChars)
         IN  Max(0, Min(leading + idx, Max(0, Len(word) - 1)))

\* Client
computeOrpIndex(word) ==
    IF word = "" THEN 0
    ELSE LET core == StripEdges(word, JsWordChars)
             coreLen == IF core # "" THEN Len(core) ELSE Len(word)
             idx == OrpBucket(coreLen)
             leading == LeadLen(word, 1, AlnumChars)
         IN  Max(0, Min(leading + idx, Max(0, Len(word) - 1)))

\* s.split(/\s+/).filter(Boolean): the maximal runs of non-space characters
RECURSIVE SplitWs(_, _)
SplitWs(s, i) ==
    IF i > Len(s) THEN <<>>
    ELSE IF IsSpaceChar(CharAt(s, i)) THEN SplitWs(s, i + 1)
    ELSE LET n == LeadLen(s, i, SpaceChars)
         IN  <<SubSeq(s, i, i + n - 1)>> \o SplitWs(s, i + n)

\* /\w/u.test(w)
isWordish(w) == \E i \in 1..Len(w) : CharAt(w, i) \in JsWordChars

\* Array.prototype.filter with isWordish
RECURSIVE FilterWordish(_)
FilterWordish(words) ==
    IF words = <<>> THEN <<>>
    ELSE IF isWordish(Head(words))
         THEN <<Head(words)>> \o FilterWordish(Tail(words))
         ELSE FilterWordish(Tail(words))

\* the text renderRSVP shows for a paragraph chunk
ParaSign == "¶"

pickFocusWord(displayChunk) ==
    IF displayChunk = "" \/ displayChunk = ParaSign THEN displayChunk
    ELSE LET words == SplitWs(displayChunk, 1)
             wordish == FilterWordish(words)
         IN  IF wordish = <<>>
             THEN IF words # <<>> THEN words[(Len(words) \div 2) + 1]
                  ELSE displayChunk
             ELSE wordish[(Len(wordish) \div 2) + 1]

\* the data-* attributes of the placeholder; plain for the un-highlighted line
buildOrpPlaceholder(displayChunk, orpEnabled) ==
    IF ~orpEnabled \/ displayChunk = ParaSign
    THEN [plain |-> TRUE, focus |-> displayChunk, left |-> "", center |-> "",
          right |-> ""]
    ELSE LET focus == pickFocusWord(displayChunk)
             idx == computeOrpIndex(focus)
         IN  [plain |-> FALSE,
              focus |-> focus,
              left |-> SubSeq(focus, 1, idx),
              center |-> IF CharAt(focus, idx + 1) # "" THEN CharAt(focus, idx + 1)
                         ELSE " ",
              right |-> SubSeq(focus, idx + 2, Len(focus))]

(***************************************************************************)
(* Per-eye rendering: stereoChunkEye, buildStereoSentenceHtml,             *)
(* buildStereoRoundRobinWordHtml, renderPerEyeChunk                        *)
(***************************************************************************)
\* startRight is els.stereoStartRightInput.checked
stereoChunkEye(index, startRight) ==
    IF (index + (IF startRight THEN 1 ELSE 0)) % 2 = 1 THEN "right" ELSE "left"

\* eyes: the eye of each part that shows the word itself (the other eye gets
\* its ghost), in the order of the parts
buildStereoSentenceHtml(displayChunk, rsvpIndex_, startRight) ==
    IF displayChunk = ParaSign THEN [eyes |-> <<>>, reveal |-> "stagger"]
    ELSE [eyes |-> <<>>,
          reveal |-> IF stereoChunkEye(rsvpIndex_, startRight) = "left"
                     THEN "stagger" ELSE "stagger-right-first"]

\* the loop over the parts; space parts and parts without a word character
\* go to both eyes and do not count
RECURSIVE RoundRobinLoop(_, _, _)
RoundRobinLoop(parts, wordCounter, firstToLeft) ==
    IF parts = <<>> THEN <<>>
    ELSE IF ~isWordish(Head(parts))
         THEN RoundRobinLoop(Tail(parts), wordCounter, firstToLeft)
         ELSE LET targetLeft == IF firstToLeft THEN wordCounter % 2 = 0
                                ELSE wordCounter % 2 = 1
              IN  <<IF targetLeft THEN "left" ELSE "right">>
                  \o RoundRobinLoop(Tail(parts), wordCounter + 1, firstToLeft)

buildStereoRoundRobinWordHtml(displayChunk, rsvpIndex_, startRight) ==
    IF displayChunk = ParaSign THEN [eyes |-> <<>>, reveal |-> "simul"]
    ELSE LET firstEye == stereoChunkEye(rsvpIndex_, startRight)
         IN  [eyes |-> RoundRobinLoop(SplitWs(displayChunk, 1), 0, firstEye = "left"),
              reveal |-> IF firstEye = "left" THEN "stagger"
                         ELSE "stagger-right-first"]

\* the payload renderPerEyeChunk puts into the two eye panes
renderPerEyeChunk(displayChunk, pattern, rsvpIndex_, startRight) ==
    IF pattern = "roundrobin"
    THEN buildStereoRoundRobinWordHtml(displayChunk, rsvpIndex_, startRight)
    ELSE IF pattern = "sentence"
    THEN buildStereoSentenceHtml(displayChunk, rsvpIndex_, startRight)
    ELSE [eyes |-> <<>>,
          reveal |-> IF stereoChunkEye(rsvpIndex_, startRight) = "left"
                     THEN "stagger" ELSE "stagger-right-first"]

(***************************************************************************)
(* Bounds and input domains                                                *)
(***************************************************************************)
\* number of extract requests that may be awaiting their response
MaxInflight == 1

\* number of pieces of a document text handed to a function called on its own
MaxWords == 3

\* document texts as the extractors return them (normalize_whitespace: no
\* space at either end, single spaces, paragraphs set off by one empty
\* line): up to n of the pieces, joined by a space or a paragraph break
RECURSIVE Texts(_, _)
Texts(pieces, n) ==
    IF n <= 1 THEN pieces
    ELSE LET shorter == Texts(pieces, n - 1)
         IN  shorter \cup {t \o sep \o p : t \in shorter, sep \in {" ", "\n\n"},
                                          p \in pieces}

\* values typed into the chunk size box (9 is outside its 1..8 range)
ChunkSizeInputs == {1, 2, 9}

\* values typed into the WPM box
WpmInputs == {400, 425}

\* the files the user can pick: name and what extract_text_from_file does
\* with the content (raises, or returns the normalized text)
Files ==
    { [name |-> "a.epub", raises |-> FALSE, text |-> "Hi, www...\n\ngo."],
      [name |-> "b.epub", raises |-> FALSE, text |-> "www..."],
      [name |-> "c.pdf",  raises |-> TRUE,  text |-> ""],
      [name |-> "d.epub", raises |-> FALSE, text |-> ""],
      [name |-> "e.txt",  raises |-> FALSE, text |-> "no"] }

(***************************************************************************)
(* Server: allowed_file, build_payload, api_extract                        *)
(***************************************************************************)
\* no file chosen in the file input: els.fileInput.files[0] is undefined
NoFile == [name |-> "", raises |-> FALSE, text |-> ""]

\* Client: /\.(pdf|epub)$/i.test(file.name)
HasPdfOrEpubName(file) ==
    EndsWith(ToLower(file.name), ".pdf") \/ EndsWith(ToLower(file.name), ".epub")

allowed_file(filename) ==
    EndsWith(ToLower(filename), ".pdf") \/ EndsWith(ToLower(filename), ".epub")

build_payload(text, filename) ==
    LET toks == tokenize_for_rsvp(text)
    IN  [ok |-> TRUE, filename |-> filename, text |-> text, tokens |-> toks,
         chunks |-> build_chunks(toks, 1, FALSE, TRUE)]

\* the body of every error response; only its ok field is read by the page
ErrorPayload == [ok |-> FALSE, filename |-> "", text |-> "", tokens |-> <<>>,
                 chunks |-> <<>>]

\* the response to the upload of f: the JSON body and whether the HTTP
\* status is 2xx
api_extract(f) ==
    IF ~allowed_file(f.name) THEN [httpOk |-> FALSE, data |-> ErrorPayload]
    ELSE IF f.raises THEN [httpOk |-> FALSE, data |-> ErrorPayload]
    ELSE IF Strip(f.text) = "" THEN [httpOk |-> FALSE, data |-> ErrorPayload]
    ELSE [httpOk |-> TRUE, data |-> build_payload(f.text, f.name)]

(***************************************************************************)
(* Client state                                                            *)
(***************************************************************************)
VARIABLES
    filename,         \* state.filename
    text,             \* state.text
    tokens,           \* state.tokens
    chunks,           \* state.chunks
    rsvpIndex,        \* state.rsvpIndex
    playing,          \* state.playing
    timer,            \* state.timer: id of the last tick timeout, 0 for null
    activePane,       \* state.activePane
    pending,          \* the browser's pending tick timeouts: [id, delay]
    seekRangeMax,     \* els.seekRange.max
    wpmInput,         \* els.wpmInput.value
    chunkSizeInput,   \* els.chunkSizeInput.value
    phraseModeInput,  \* els.phraseModeInput.checked
    skipUrlsInput,    \* els.skipUrlsInput.checked
    orpInput,         \* els.orpInput.checked
    orpPivotInput,    \* els.orpPivotInput.value
    commaPauseInput,  \* els.commaPauseInput.value, in hundredths
    sentencePauseInput, \* els.sentencePauseInput.value, in hundredths
    paraPauseInput,   \* els.paraPauseInput.value, in hundredths
    stereoModeInput,  \* els.stereoModeInput.checked
    stereoPatternInput, \* els.stereoPatternInput.value
    stereoStartRightInput, \* els.stereoStartRightInput.checked
    lrDelayInput,     \* els.lrDelayInput.value
    stereoRevealTimer, \* state.stereoRevealTimer: id of the last reveal
                      \* timeout, 0 for null
    reveals,          \* the browser's pending reveal timeouts: [id, delay,
                      \* eye, index], index the chunk the timeout was set for
    leftEyeOpacity,   \* els.rsvpLeftEye.style.opacity
    rightEyeOpacity,  \* els.rsvpRightEye.style.opacity
    inflight,         \* responses of /api/extract on their way, oldest first
    lastOp,           \* the handler that ran last ("other": one that only
                      \* reports a status or switches the pane)
    call,             \* a function of the program called on its own: its
                      \* name and arguments ("none": no such call)
    result            \* <<>> until the call has returned, then <<value>>

vars == <<filename, text, tokens, chunks, rsvpIndex, playing, timer, activePane,
          pending, seekRangeMax, wpmInput, chunkSizeInput, phraseModeInput,
          skipUrlsInput, orpInput, orpPivotInput, commaPauseInput,
          sentencePauseInput, paraPauseInput, stereoModeInput,
          stereoPatternInput, stereoStartRightInput, lrDelayInput,
          stereoRevealTimer, reveals, leftEyeOpacity, rightEyeOpacity,
          inflight, lastOp, call, result>>

\* the page without the record of a function called on its own
pageVars == <<filename, text, tokens, chunks, rsvpIndex, playing, timer,
              activePane, pending, seekRangeMax, wpmInput, chunkSizeInput,
              phraseModeInput, skipUrlsInput, orpInput, orpPivotInput,
              commaPauseInput, sentencePauseInput, paraPauseInput,
              stereoModeInput, stereoPatternInput, stereoStartRightInput,
              lrDelayInput, stereoRevealTimer, reveals, leftEyeOpacity,
              rightEyeOpacity, inflight, lastOp>>

\* the page state the handlers read and write, as one record
Cur == [filename |-> filename, text |-> text, tokens |-> tokens,
        chunks |-> chunks, rsvpIndex |-> rsvpIndex, playing |-> playing,
        timer |-> timer, activePane |-> activePane, pending |-> pending,
        seekRangeMax |-> seekRangeMax, wpmInput |-> wpmInput,
        chunkSizeInput |-> chunkSizeInput, phraseModeInput |-> phraseModeInput,
        skipUrlsInput |-> skipUrlsInput, orpInput |-> orpInput,
        orpPivotInput |-> orpPivotInput, commaPauseInput |-> commaPauseInput,
        sentencePauseInput |-> sentencePauseInput,
        paraPauseInput |-> paraPauseInput, stereoModeInput |-> stereoModeInput,
        stereoPatternInput |-> stereoPatternInput,
        stereoStartRightInput |-> stereoStartRightInput,
        lrDelayInput |-> lrDelayInput, stereoRevealTimer |-> stereoRevealTimer,
        reveals |-> reveals, leftEyeOpacity |-> leftEyeOpacity,
        rightEyeOpacity |-> rightEyeOpacity]

\* the handler leaves the page in state st and is recorded as op
FinishPage(st, op) ==
    \E s \in {st} :
       /\ filename' = s.filename
       /\ text' = s.text
       /\ tokens' = s.tokens
       /\ chunks' = s.chunks
       /\ rsvpIndex' = s.rsvpIndex
       /\ playing' = s.playing
       /\ timer' = s.timer
       /\ activePane' = s.activePane
       /\ pending' = s.pending
       /\ seekRangeMax' = s.seekRangeMax
       /\ wpmInput' = s.wpmInput
       /\ chunkSizeInput' = s.chunkSizeInput
       /\ phraseModeInput' = s.phraseModeInput
       /\ skipUrlsInput' = s.skipUrlsInput
       /\ orpInput' = s.orpInput
       /\ orpPivotInput' = s.orpPivotInput
       /\ commaPauseInput' = s.commaPauseInput
       /\ sentencePauseInput' = s.sentencePauseInput
       /\ paraPauseInput' = s.paraPauseInput
       /\ stereoModeInput' = s.stereoModeInput
       /\ stereoPatternInput' = s.stereoPatternInput
       /\ stereoStartRightInput' = s.stereoStartRightInput
       /\ lrDelayInput' = s.lrDelayInput
       /\ stereoRevealTimer' = s.stereoRevealTimer
       /\ reveals' = s.reveals
       /\ leftEyeOpacity' = s.leftEyeOpacity
       /\ rightEyeOpacity' = s.rightEyeOpacity
       /\ lastOp' = op

\* the same for a handler of the page, which is no call of a function on its
\* own
Finish(st, op) ==
    /\ FinishPage(st, op)
    /\ UNCHANGED <<call, result>>

(***************************************************************************)
(* Client functions                                                        *)
(***************************************************************************)
PendingIds(st) == {t.id : t \in st.pending}

clearTimeout(st, id) == [st EXCEPT !.pending = {t \in @ : t.id # id}]

\* setTimeout whose result is not stored in state.timer
setTimeoutNoHandle(st, delay) ==
    LET id == CHOOSE n \in 1..(Cardinality(st.pending) + 1) :
                  n \notin PendingIds(st)
    IN  [st EXCEPT !.pending = @ \cup {[id |-> id, delay |-> delay]}]

\* setTimeout(callback, delay) with the result assigned to state.timer; the
\* id returned is one that no pending timeout has
setTimeout(st, delay) ==
    LET id == CHOOSE n \in 1..(Cardinality(st.pending) + 1) :
                  n \notin PendingIds(st)
    IN  [st EXCEPT !.pending = @ \cup {[id |-> id, delay |-> delay]},
                   !.timer = id]

\* state.stereoRevealTimer2 is never assigned a timeout
clearStereoTimers(st) ==
    [st EXCEPT !.reveals = {r \in @ : r.id # st.stereoRevealTimer},
               !.stereoRevealTimer = 0]

\* state.stereoRevealTimer = setTimeout(callback, lrDelay); the callback
\* makes the lane of eye visible
setRevealTimeout(st, eye, lrDelay) ==
    LET id == CHOOSE n \in 1..(Cardinality(st.reveals) + 1) :
                  n \notin {r.id : r \in st.reveals}
    IN  [st EXCEPT !.reveals = @ \cup {[id |-> id, delay |-> lrDelay,
                                        eye |-> eye, index |-> st.rsvpIndex]},
                   !.stereoRevealTimer = id]

\* renderPerEyeChunk on the page: the timers and the opacity of the lanes
showPerEyeChunk(st) ==
    LET s1 == clearStereoTimers(st)
        lrDelay == clamp(s1.lrDelayInput, 0, 1000)
        chunk == s1.chunks[s1.rsvpIndex + 1]
        displayChunk == IF chunk = PARA THEN ParaSign ELSE chunk
        payload == renderPerEyeChunk(displayChunk, s1.stereoPatternInput,
                                     s1.rsvpIndex, s1.stereoStartRightInput)
    IN  IF payload.reveal = "simul" \/ lrDelay = 0
        THEN [s1 EXCEPT !.leftEyeOpacity = 1, !.rightEyeOpacity = 1]
        ELSE IF payload.reveal = "stagger-right-first"
        THEN setRevealTimeout([s1 EXCEPT !.leftEyeOpacity = 0,
                                         !.rightEyeOpacity = 1], "left", lrDelay)
        ELSE setRevealTimeout([s1 EXCEPT !.leftEyeOpacity = 1,
                                         !.rightEyeOpacity = 0], "right", lrDelay)

\* the callback renderPerEyeChunk hands to setTimeout
RevealCallback(st, r) ==
    IF r.eye = "left" THEN [st EXCEPT !.leftEyeOpacity = 1]
    ELSE [st EXCEPT !.rightEyeOpacity = 1]

renderRSVP(st) ==
    IF st.chunks = <<>> THEN st
    ELSE LET s1 == [st EXCEPT !.rsvpIndex = clamp(@, 0, Len(st.chunks) - 1)]
         IN  IF s1.stereoModeInput THEN showPerEyeChunk(s1)
             ELSE clearStereoTimers(s1)

rebuildRSVP(st) ==
    LET chunkSize == clamp(st.chunkSizeInput, 1, 8)
        built == buildChunksClient(st.tokens, chunkSize, st.phraseModeInput,
                                   st.skipUrlsInput)
        s1 == [st EXCEPT !.chunks = built,
                         !.rsvpIndex = clamp(@, 0, Max(0, Len(built) - 1)),
                         !.seekRangeMax = Max(0, Len(built) - 1)]
    IN  renderRSVP(s1)

scheduleNextTick(st) ==
    IF ~st.playing THEN st
    ELSE setTimeout(clearTimeout(st, st.timer), currentDelayMs(st))

\* setPlaying that leaves the tick timeout alone when it pauses
setPlayingKeepTimer(st, on) ==
    LET s1 == [st EXCEPT !.playing = on]
        s2 == IF s1.playing THEN scheduleNextTick(s1)
              ELSE clearStereoTimers(s1)
    IN  renderRSVP(s2)

\* setPlaying that refuses to start at the last chunk
setPlayingStopAtEnd(st, on) ==
    LET atEnd == st.rsvpIndex >= Len(st.chunks) - 1
        s1 == [st EXCEPT !.playing = on /\ ~atEnd]
        s2 == IF s1.playing THEN scheduleNextTick(s1)
              ELSE clearStereoTimers(clearTimeout(s1, s1.timer))
    IN  renderRSVP(s2)

setPlaying(st, on) ==
    LET s1 == [st EXCEPT !.playing = on]
        s2 == IF s1.playing THEN scheduleNextTick(s1)
              ELSE clearStereoTimers(clearTimeout(s1, s1.timer))
    IN  renderRSVP(s2)

setMode(st, mode) ==
    LET s1 == [st EXCEPT !.activePane = mode]
    IN  IF mode = "rsvp" THEN renderRSVP(s1) ELSE s1

\* tick callback that reschedules before it advances
TickCallbackStaleDelay(st) ==
    IF ~st.playing THEN st
    ELSE IF st.rsvpIndex < Len(st.chunks) - 1
         THEN LET s1 == scheduleNextTick(st)
              IN  renderRSVP([s1 EXCEPT !.rsvpIndex = @ + 1])
         ELSE renderRSVP([st EXCEPT !.playing = FALSE])

\* tick callback that starts over at the end of the stream
TickCallbackWrap(st) ==
    IF ~st.playing THEN st
    ELSE IF st.rsvpIndex < Len(st.chunks) - 1
         THEN scheduleNextTick(renderRSVP([st EXCEPT !.rsvpIndex = @ + 1]))
         ELSE scheduleNextTick(renderRSVP([st EXCEPT !.rsvpIndex = 0]))

\* the callback scheduleNextTick hands to setTimeout
TickCallback(st) ==
    IF ~st.playing THEN st
    ELSE IF st.rsvpIndex < Len(st.chunks) - 1
         THEN scheduleNextTick(renderRSVP([st EXCEPT !.rsvpIndex = @ + 1]))
         ELSE renderRSVP([st EXCEPT !.playing = FALSE])

\* load that keeps the chunks the server sent instead of rebuilding them
LoadSucceededNoRebuild(st, data, pane) ==
    LET s1 == [st EXCEPT !.filename = data.filename, !.text = data.text,
                         !.tokens = data.tokens, !.chunks = data.chunks,
                         !.rsvpIndex = 0]
        s2 == [clearStereoTimers(clearTimeout(s1, s1.timer))
                 EXCEPT !.playing = FALSE]
        s3 == [s2 EXCEPT !.seekRangeMax = Max(0, Len(s2.chunks) - 1)]
    IN  setMode(s3, pane)

\* the try block of loadFile once the response has arrived; pane is the pane
\* the Quest mode setting selects
LoadSucceeded(st, data, pane) ==
    LET s1 == [st EXCEPT !.filename = data.filename, !.text = data.text,
                         !.tokens = data.tokens, !.chunks = data.chunks,
                         !.rsvpIndex = 0]
        s2 == [clearStereoTimers(clearTimeout(s1, s1.timer))
                 EXCEPT !.playing = FALSE]
        s3 == [s2 EXCEPT !.seekRangeMax = Max(0, Len(s2.chunks) - 1)]
    IN  setMode(rebuildRSVP(s3), pane)

\* the inputs whose change only renders again
RenderOnlyInputs ==
    {"wpmInput", "orpInput", "orpPivotInput", "commaPauseInput",
     "sentencePauseInput", "paraPauseInput", "stereoModeInput",
     "stereoStartRightInput", "stereoPatternInput", "lrDelayInput"}

\* a change listener that pauses and rebuilds for every input
changeListenerRebuild(st, el) == rebuildRSVP(setPlaying(st, FALSE))

\* the change listener of the settings inputs el of this model, run after
\* the input has taken its new value
changeListener(st, el) ==
    IF el \in RenderOnlyInputs THEN renderRSVP(st) ELSE rebuildRSVP(st)

\* step that does not pause first
StepNoPause(st, d) ==
    IF st.chunks = <<>> THEN st
    ELSE renderRSVP([st EXCEPT !.rsvpIndex =
                        clamp(@ + d, 0, Len(st.chunks) - 1)])

\* prevBtn / nextBtn click and the ArrowLeft / ArrowRight keys
Step(st, d) ==
    LET s1 == setPlaying(st, FALSE)
    IN  IF s1.chunks = <<>> THEN s1
        ELSE renderRSVP([s1 EXCEPT !.rsvpIndex =
                            clamp(@ + d, 0, Len(s1.chunks) - 1)])

(***************************************************************************)
(* Initial state: the page after its script has run                        *)
(***************************************************************************)
PageInit ==
    /\ filename = ""
    /\ text = ""
    /\ tokens = <<>>
    /\ chunks = <<>>
    /\ rsvpIndex = 0
    /\ playing = FALSE
    /\ timer = 0
    /\ activePane = "doc"
    /\ pending = {}
    /\ seekRangeMax = 0
    /\ wpmInput = 400
    /\ chunkSizeInput = 1
    /\ phraseModeInput = FALSE
    /\ skipUrlsInput = TRUE
    /\ orpInput = TRUE
    /\ orpPivotInput = 0
    /\ commaPauseInput = 160
    /\ sentencePauseInput = 220
    /\ paraPauseInput = 300
    /\ stereoModeInput = FALSE
    /\ stereoPatternInput = "chunk"
    /\ stereoStartRightInput = FALSE
    /\ lrDelayInput = 35
    /\ stereoRevealTimer = 0
    /\ reveals = {}
    /\ leftEyeOpacity = 1
    /\ rightEyeOpacity = 1
    /\ inflight = <<>>
    /\ lastOp = "other"

Init ==
    /\ PageInit
    /\ call = [fn |-> "none"]
    /\ result = <<>>

\* the page is in state st
PageIs(st) ==
    /\ filename = st.filename
    /\ text = st.text
    /\ tokens = st.tokens
    /\ chunks = st.chunks
    /\ rsvpIndex = st.rsvpIndex
    /\ playing = st.playing
    /\ timer = st.timer
    /\ activePane = st.activePane
    /\ pending = st.pending
    /\ seekRangeMax = st.seekRangeMax
    /\ wpmInput = st.wpmInput
    /\ chunkSizeInput = st.chunkSizeInput
    /\ phraseModeInput = st.phraseModeInput
    /\ skipUrlsInput = st.skipUrlsInput
    /\ orpInput = st.orpInput
    /\ orpPivotInput = st.orpPivotInput
    /\ commaPauseInput = st.commaPauseInput
    /\ sentencePauseInput = st.sentencePauseInput
    /\ paraPauseInput = st.paraPauseInput
    /\ stereoModeInput = st.stereoModeInput
    /\ stereoPatternInput = st.stereoPatternInput
    /\ stereoStartRightInput = st.stereoStartRightInput
    /\ lrDelayInput = st.lrDelayInput
    /\ stereoRevealTimer = st.stereoRevealTimer
    /\ reveals = st.reveals
    /\ leftEyeOpacity = st.leftEyeOpacity
    /\ rightEyeOpacity = st.rightEyeOpacity

\* the state of PageInit as a record
OpenedPage ==
    [filename |-> "", text |-> "", tokens |-> <<>>, chunks |-> <<>>,
     rsvpIndex |-> 0, playing |-> FALSE, timer |-> 0, activePane |-> "doc",
     pending |-> {}, seekRangeMax |-> 0, wpmInput |-> 400,
     chunkSizeInput |-> 1, phraseModeInput |-> FALSE, skipUrlsInput |-> TRUE,
     orpInput |-> TRUE, orpPivotInput |-> 0, commaPauseInput |-> 160,
     sentencePauseInput |-> 220, paraPauseInput |-> 300,
     stereoModeInput |-> FALSE, stereoPatternInput |-> "chunk",
     stereoStartRightInput |-> FALSE, lrDelayInput |-> 35,
     stereoRevealTimer |-> 0, reveals |-> {}, leftEyeOpacity |-> 1,
     rightEyeOpacity |-> 1]

(***************************************************************************)
(* Event handlers                                                          *)
(***************************************************************************)
\* loadBtn click -> loadFile, up to the await of fetch: a file of another
\* type is rejected on the spot, otherwise the server answers the upload and
\* the response is on its way
LoadClick(f) ==
    /\ IF f # NoFile /\ HasPdfOrEpubName(f)
       THEN /\ Len(inflight) < MaxInflight
            /\ inflight' = Append(inflight, api_extract(f))
            /\ Finish(Cur, "other")
       ELSE /\ inflight' = inflight
            /\ Finish(Cur, "loadRejected")

\* loadFile that stores the response before it looks at its ok flag
LoadResponseEager(i, networkError, pane) ==
    /\ i \in 1..Len(inflight)
    /\ inflight' = SubSeq(inflight, 1, i - 1) \o SubSeq(inflight, i + 1, Len(inflight))
    /\ LET res == inflight[i]
       IN  IF networkError THEN Finish(Cur, "loadFailed")
           ELSE IF ~res.httpOk \/ ~res.data.ok
           THEN Finish([Cur EXCEPT !.filename = res.data.filename,
                                   !.text = res.data.text,
                                   !.tokens = res.data.tokens,
                                   !.chunks = res.data.chunks,
                                   !.rsvpIndex = 0], "loadFailed")
           ELSE Finish(LoadSucceeded(Cur, res.data, pane), "loadSucceeded")

\* loadFile from the await on: response i arrives, or the fetch fails
\* (networkError) and throws into the catch block
LoadResponse(i, networkError, pane) ==
    /\ i \in 1..Len(inflight)
    /\ inflight' = SubSeq(inflight, 1, i - 1) \o SubSeq(inflight, i + 1, Len(inflight))
    /\ LET res == inflight[i]
       IN  IF networkError \/ ~res.httpOk \/ ~res.data.ok
           THEN Finish(Cur, "loadFailed")
           ELSE Finish(LoadSucceeded(Cur, res.data, pane), "loadSucceeded")

\* playBtn click
PlayClick ==
    /\ IF chunks = <<>> THEN Finish(Cur, "other")
       ELSE Finish(setPlaying(Cur, ~playing), IF playing THEN "pause" ELSE "play")
    /\ UNCHANGED inflight

\* prevBtn / nextBtn click, d = -1 / +1
StepClick(d) ==
    /\ Finish(Step(Cur, d), "step")
    /\ UNCHANGED inflight

\* seekRange input: the slider was moved to v
SeekInput(v) ==
    /\ LET s1 == setPlaying(Cur, FALSE)
       IN  Finish(renderRSVP([s1 EXCEPT !.rsvpIndex =
                      clamp(v, 0, Max(0, Len(s1.chunks) - 1))]), "seek")
    /\ UNCHANGED inflight

\* rebuildBtn click
RebuildClick ==
    /\ Finish(rebuildRSVP(setPlaying(Cur, FALSE)), "rebuildBtn")
    /\ UNCHANGED inflight

\* change listener, els.wpmInput
WpmChange(v) ==
    /\ Finish(renderRSVP([Cur EXCEPT !.wpmInput = v]), "configRender")
    /\ UNCHANGED inflight

\* change listener, els.chunkSizeInput
ChunkSizeChange(v) ==
    /\ Finish(rebuildRSVP([Cur EXCEPT !.chunkSizeInput = v]), "configRebuild")
    /\ UNCHANGED inflight

\* change listener, els.phraseModeInput
PhraseModeChange ==
    /\ Finish(rebuildRSVP([Cur EXCEPT !.phraseModeInput = ~@]), "configRebuild")
    /\ UNCHANGED inflight

\* change listener, els.skipUrlsInput
SkipUrlsChange ==
    /\ Finish(rebuildRSVP([Cur EXCEPT !.skipUrlsInput = ~@]), "configRebuild")
    /\ UNCHANGED inflight

\* docModeBtn / rsvpModeBtn click
ModeClick(mode) ==
    /\ Finish(setMode(Cur, mode), "other")
    /\ UNCHANGED inflight

\* the keys the window keydown handler acts on in this model
Keys == {"Tab", " ", "ArrowLeft", "ArrowRight", "[", "]", "-", "=", "p", "r"}

\* window keydown, focus outside the form controls
KeyDown(key) ==
    /\ IF key = "Tab"
       THEN Finish(setMode(Cur, IF activePane = "doc" THEN "rsvp" ELSE "doc"),
                   "other")
       ELSE /\ activePane = "rsvp"
            /\ CASE key = " " ->
                      IF chunks # <<>>
                      THEN Finish(setPlaying(Cur, ~playing),
                                  IF playing THEN "pause" ELSE "play")
                      ELSE Finish(Cur, "other")
                 [] key = "ArrowLeft" -> Finish(Step(Cur, -1), "step")
                 [] key = "ArrowRight" -> Finish(Step(Cur, 1), "step")
                 [] key \in {"[", "]"} ->
                      LET v == clamp(wpmInput + (IF key = "[" THEN -25 ELSE 25),
                                     50, 3000)
                      IN  /\ v \in WpmInputs
                          /\ Finish(renderRSVP([Cur EXCEPT !.wpmInput = v]),
                                    "configRender")
                 [] key \in {"-", "="} ->
                      LET v == clamp(chunkSizeInput + (IF key = "-" THEN -1 ELSE 1),
                                     1, 8)
                      IN  /\ v \in ChunkSizeInputs
                          /\ Finish(rebuildRSVP([Cur EXCEPT !.chunkSizeInput = v]),
                                    "configRebuild")
                 [] key = "p" ->
                      Finish(rebuildRSVP([Cur EXCEPT !.phraseModeInput = ~@]),
                             "configRebuild")
                 [] key = "r" -> Finish(rebuildRSVP(Cur), "configRebuild")
    /\ UNCHANGED inflight

\* a tick timeout fires
Tick(t) ==
    /\ t \in pending
    /\ Finish(TickCallback([Cur EXCEPT !.pending = @ \ {t}]), "tick")
    /\ UNCHANGED inflight

\* a reveal timeout fires
Reveal(r) ==
    /\ r \in reveals
    /\ Finish(RevealCallback([Cur EXCEPT !.reveals = @ \ {r}], r), "reveal")
    /\ UNCHANGED inflight

Next ==
    \/ \E f \in Files \cup {NoFile} : LoadClick(f)
    \/ \E i \in 1..MaxInflight, e \in BOOLEAN, pane \in {"doc", "rsvp"} :
           LoadResponse(i, e, pane)
    \/ PlayClick
    \/ \E d \in {-1, 1} : StepClick(d)
    \/ \E v \in 0..seekRangeMax : SeekInput(v)
    \/ RebuildClick
    \/ \E v \in WpmInputs : WpmChange(v)
    \/ \E v \in ChunkSizeInputs : ChunkSizeChange(v)
    \/ PhraseModeChange
    \/ SkipUrlsChange
    \/ \E mode \in {"doc", "rsvp"} : ModeClick(mode)
    \/ \E key \in Keys : KeyDown(key)
    \/ \E t \in pending : Tick(t)

Spec == Init /\ [][Next]_vars

(***************************************************************************)
(* The chunk builders called on their own: buildChunksClient with every    *)
(* setting of the page, build_chunks with the arguments of build_payload   *)
(***************************************************************************)
\* pieces of the texts: clause and sentence ends, a closing bracket, and the
\* three spellings of a link
ChunkPieces == {"Hi,", "go.)", "www...", "a.io/x", "http://b"}

\* values of the chunk size after rebuildRSVP has limited it to 1..8
ChunkSizes == {1, 2, 4}

ChunkInit ==
    /\ PageInit
    /\ result = <<>>
    /\ \E t \in Texts(ChunkPieces, MaxWords) :
          \/ \E n \in ChunkSizes, p \in BOOLEAN, u \in BOOLEAN :
                call = [fn |-> "buildChunksClient", text |-> t,
                        tokens |-> tokenize_for_rsvp(t), chunkSize |-> n,
                        phraseMode |-> p, skipUrls |-> u]
          \/ call = [fn |-> "build_chunks", text |-> t,
                     tokens |-> tokenize_for_rsvp(t), chunkSize |-> 1,
                     phraseMode |-> FALSE, skipUrls |-> TRUE]

CallBuildChunksClient ==
    /\ call.fn = "buildChunksClient"
    /\ result = <<>>
    /\ result' = <<buildChunksClient(call.tokens, call.chunkSize, call.phraseMode,
                                     call.skipUrls)>>
    /\ UNCHANGED <<pageVars, call>>

CallBuildChunks ==
    /\ call.fn = "build_chunks"
    /\ result = <<>>
    /\ result' = <<build_chunks(call.tokens, call.chunkSize, call.phraseMode,
                                call.skipUrls)>>
    /\ UNCHANGED <<pageVars, call>>

ChunkNext == CallBuildChunksClient \/ CallBuildChunks

ChunkSpec == ChunkInit /\ [][ChunkNext]_vars

(***************************************************************************)
(* renderPerEyeChunk called on its own, as renderRSVP calls it with        *)
(* per-eye mode on: for a chunk sequence of the page and each index        *)
(***************************************************************************)
\* pieces of the texts: a word, a sentence end, a bracket on its own
EyePieces == {"a", "b.", "("}

\* values of els.stereoPatternInput
EyePatterns == {"chunk", "roundrobin", "sentence"}

EyeInit ==
    /\ PageInit
    /\ result = <<>>
    /\ \E t \in Texts(EyePieces, MaxWords), n \in {1, 2, 3} :
          LET cs == buildChunksClient(tokenize_for_rsvp(t), n, FALSE, TRUE)
          IN  \E i \in 0..(Len(cs) - 1), pat \in EyePatterns, sr \in BOOLEAN :
                  call = [fn |-> "renderPerEyeChunk", chunks |-> cs,
                          rsvpIndex |-> i, pattern |-> pat, startRight |-> sr]

CallRenderPerEyeChunk ==
    /\ call.fn = "renderPerEyeChunk"
    /\ result = <<>>
    /\ LET chunk == call.chunks[call.rsvpIndex + 1]
           displayChunk == IF chunk = PARA THEN ParaSign ELSE chunk
       IN  result' = <<renderPerEyeChunk(displayChunk, call.pattern,
                                         call.rsvpIndex, call.startRight)>>
    /\ UNCHANGED <<pageVars, call>>

EyeNext == CallRenderPerEyeChunk

EyeSpec == EyeInit /\ [][EyeNext]_vars

(***************************************************************************)
(* currentDelayMs called on its own, as scheduleNextTick calls it          *)
(***************************************************************************)
\* pieces of the texts: a word, a sentence end, a hyphenated word
DelayPieces == {"a", "go.", "x-y"}

\* values of els.wpmInput within its range 50..3000
DelayWpmInputs == {50, 400, 3000}

\* values of els.lrDelayInput within its range 0..1000
LrDelayInputs == {0, 35, 1000}

DelayInit ==
    /\ PageInit
    /\ result = <<>>
    /\ \E t \in Texts(DelayPieces, MaxWords), n \in {1, 2} :
          LET cs == buildChunksClient(tokenize_for_rsvp(t), n, FALSE, TRUE)
          IN  \E i \in 0..(Len(cs) - 1), w \in DelayWpmInputs, on \in BOOLEAN,
                 lr \in LrDelayInputs :
                  call = [fn |-> "currentDelayMs", chunks |-> cs, rsvpIndex |-> i,
                          wpmInput |-> w, stereoModeInput |-> on,
                          lrDelayInput |-> lr]

\* currentDelayMs reads neither els.stereoModeInput nor els.lrDelayInput
CallCurrentDelayMs ==
    /\ call.fn = "currentDelayMs"
    /\ result = <<>>
    /\ result' = <<currentDelayMs([Cur EXCEPT !.chunks = call.chunks,
                                              !.rsvpIndex = call.rsvpIndex,
                                              !.wpmInput = call.wpmInput])>>
    /\ UNCHANGED <<pageVars, call>>

DelayNext == CallCurrentDelayMs

DelaySpec == DelayInit /\ [][DelayNext]_vars

(***************************************************************************)
(* compute_orp_index, computeOrpIndex and buildOrpPlaceholder called on    *)
(* their own, on tokens and chunks of document texts                       *)
(***************************************************************************)
\* length of the longest word handed to the two index functions
MaxWordLen == 20

\* the letters the words are cut from
Filler == "internationalizations"

\* texts of one token: a word of each length, bare, in brackets and before a
\* full stop; the words of the examples; tokens without a letter or with a
\* letter outside ASCII
OrpTexts ==
    {pre \o SubSeq(Filler, 1, Min(L, Len(Filler))) \o suf :
        pre \in {"", "("}, L \in 1..MaxWordLen, suf \in {"", ".", ")"}}
    \cup {"a", "apple", "elephant", "information", "...", "(", "é", "(é)",
          "(é", "x-y", "don't"}

\* the tokens of those texts
OrpWords ==
    UNION {{tokenize_for_rsvp(t)[k] : k \in 1..Len(tokenize_for_rsvp(t))} :
              t \in OrpTexts}

\* pieces of the texts the chunks are cut from
FocusPieces == {"a", "Hello,", "information", "("}

\* the chunks renderRSVP shows for those texts
FocusChunks ==
    UNION {LET cs == buildChunksClient(tokenize_for_rsvp(t), n, FALSE, TRUE)
           IN  {IF cs[i] = PARA THEN ParaSign ELSE cs[i] : i \in 1..Len(cs)} :
              t \in Texts(FocusPieces, MaxWords), n \in {1, 2, 3}}

OrpInit ==
    /\ PageInit
    /\ result = <<>>
    /\ \/ \E w \in OrpWords, f \in {"compute_orp_index", "computeOrpIndex"} :
             call = [fn |-> f, word |-> w]
       \/ \E c \in FocusChunks, on \in BOOLEAN :
             call = [fn |-> "buildOrpPlaceholder", displayChunk |-> c,
                     orpEnabled |-> on]

CallComputeOrpIndexServer ==
    /\ call.fn = "compute_orp_index"
    /\ result = <<>>
    /\ result' = <<compute_orp_index(call.word)>>
    /\ UNCHANGED <<pageVars, call>>

CallComputeOrpIndex ==
    /\ call.fn = "computeOrpIndex"
    /\ result = <<>>
    /\ result' = <<computeOrpIndex(call.word)>>
    /\ UNCHANGED <<pageVars, call>>

CallBuildOrpPlaceholder ==
    /\ call.fn = "buildOrpPlaceholder"
    /\ result = <<>>
    /\ result' = <<buildOrpPlaceholder(call.displayChunk, call.orpEnabled)>>
    /\ UNCHANGED <<pageVars, call>>

OrpNext ==
    \/ CallComputeOrpIndexServer
    \/ CallComputeOrpIndex
    \/ CallBuildOrpPlaceholder

OrpSpec == OrpInit /\ [][OrpNext]_vars

(***************************************************************************)
(* The settings inputs changed by the user, on a page that has loaded a    *)
(* document, has stepped through it and plays or is paused; the inputs     *)
(* arrive before a timeout is due                                          *)
(***************************************************************************)
\* number of settings inputs that are off their initial value at once
MaxChanged == 1

\* the values each input is given: its initial value and others in range
InputValues ==
    [wpmInput |-> WpmInputs,
     orpInput |-> BOOLEAN,
     orpPivotInput |-> {0, 7},
     commaPauseInput |-> {160, 100},
     sentencePauseInput |-> {220, 160},
     paraPauseInput |-> {300, 450},
     stereoModeInput |-> BOOLEAN,
     stereoStartRightInput |-> BOOLEAN,
     stereoPatternInput |-> {"chunk", "roundrobin", "sentence"},
     lrDelayInput |-> {35, 0, 1000},
     chunkSizeInput |-> ChunkSizeInputs,
     phraseModeInput |-> BOOLEAN,
     skipUrlsInput |-> BOOLEAN]

\* the values of the inputs when the page is opened
InitialValues ==
    [wpmInput |-> 400, orpInput |-> TRUE, orpPivotInput |-> 0,
     commaPauseInput |-> 160, sentencePauseInput |-> 220,
     paraPauseInput |-> 300, stereoModeInput |-> FALSE,
     stereoStartRightInput |-> FALSE, stereoPatternInput |-> "chunk",
     lrDelayInput |-> 35, chunkSizeInput |-> 1, phraseModeInput |-> FALSE,
     skipUrlsInput |-> TRUE]

\* change event of input el, which has taken the value v
InputChange(el, v) ==
    /\ v \in InputValues[el]
    /\ v # Cur[el]
    /\ Cardinality({e \in DOMAIN InputValues :
                       [Cur EXCEPT ![el] = v][e] # InitialValues[e]}) <= MaxChanged
    /\ Finish(changeListener([Cur EXCEPT ![el] = v], el),
              IF el \in RenderOnlyInputs THEN "configRender" ELSE "configRebuild")
    /\ UNCHANGED inflight

ConfigNext ==
    \/ \E f \in {g \in Files : g.name = "a.epub"} : LoadClick(f)
    \/ \E pane \in {"doc", "rsvp"} : LoadResponse(1, FALSE, pane)
    \/ PlayClick
    \/ \E d \in {-1, 1} : StepClick(d)
    \/ \E el \in DOMAIN InputValues : \E v \in InputValues[el] :
           InputChange(el, v)

ConfigSpec == Init /\ [][ConfigNext]_vars

(***************************************************************************)
(* Playback left to itself: the page plays a loaded document and the only  *)
(* events are its timeouts.  The tick timeout and the reveal timeout that  *)
(* are pending together were set by one handler, so the one with the       *)
(* shorter delay fires first; with equal delays either may.                *)
(***************************************************************************)
\* pieces of the document texts: a word and a sentence end
PlayPieces == {"a", "go."}

\* the page after the document with text t has been loaded, the inputs have
\* been set, the slider has been moved to chunk i and Play has been clicked
PlayingPage(t, i, on, pattern, startRight, lr) ==
    LET s1 == LoadSucceeded(OpenedPage, build_payload(t, "a.epub"), "rsvp")
        s2 == renderRSVP([s1 EXCEPT !.stereoModeInput = on,
                                    !.stereoPatternInput = pattern,
                                    !.stereoStartRightInput = startRight,
                                    !.lrDelayInput = lr])
        s3 == setPlaying(s2, FALSE)
        s4 == renderRSVP([s3 EXCEPT !.rsvpIndex =
                             clamp(i, 0, Max(0, Len(s3.chunks) - 1))])
    IN  setPlaying(s4, TRUE)

PlayInit ==
    /\ call = [fn |-> "none"]
    /\ result = <<>>
    /\ inflight = <<>>
    /\ lastOp = "play"
    /\ \E t \in Texts(PlayPieces, MaxWords) :
          \E i \in 0..(Len(build_payload(t, "a.epub").chunks) - 1) :
             \/ PageIs(PlayingPage(t, i, FALSE, "chunk", FALSE, 35))
             \/ \E pattern \in EyePatterns, startRight \in BOOLEAN,
                   lr \in LrDelayInputs :
                   PageIs(PlayingPage(t, i, TRUE, pattern, startRight, lr))

\* the timeout that fires is one that is due before every other pending
\* timeout, or together with it
PlayNext ==
    \/ \E t \in pending :
          /\ \A r \in reveals : t.delay <= r.delay
          /\ Tick(t)
    \/ \E r \in reveals :
          /\ \A t \in pending : r.delay <= t.delay
          /\ Reveal(r)

\* a timeout is pending and one fires
TimeoutFires ==
    /\ pending # {} \/ reveals # {}
    /\ lastOp' \in {"tick", "reveal"}
    /\ rsvpIndex' \in 0..Max(0, Len(chunks) - 1)
    /\ playing' \in BOOLEAN

\* a timeout that is due fires
PlaySpec ==
    /\ PlayInit
    /\ [][PlayNext]_vars
    /\ WF_<<lastOp, rsvpIndex, playing>>(TimeoutFires)

(***************************************************************************)
(* loadFile called while an earlier call still awaits its response         *)
(***************************************************************************)
\* number of uploads on their way at once
MaxLoads == 2

LoadInit ==
    /\ PageInit
    /\ call = [fn |-> "loadFile", file |-> "", overlapping |-> FALSE]
    /\ result = <<>>

\* loadBtn click -> loadFile up to the await of fetch, recorded as the call
\* of loadFile made last; overlapping: an earlier call still awaits its
\* response
CallLoadFile(f) ==
    /\ f # NoFile
    /\ HasPdfOrEpubName(f)
    /\ Len(inflight) < MaxLoads
    /\ inflight' = Append(inflight, api_extract(f))
    /\ FinishPage(Cur, "other")
    /\ call' = [fn |-> "loadFile", file |-> f.name,
                overlapping |-> inflight # <<>>]
    /\ UNCHANGED result

\* a call of loadFile, or one of the calls goes on from its await, the
\* responses arriving in any order
LoadNext ==
    \/ \E f \in Files : CallLoadFile(f)
    \/ \E i \in 1..MaxLoads, pane \in {"doc", "rsvp"} :
          LoadResponse(i, FALSE, pane)

LoadSpec == LoadInit /\ [][LoadNext]_vars

(***************************************************************************)
(* Client: getQuestPivotShift, applyPixelOrp.  Lengths are in sixteenths   *)
(* of a pixel: the widths canvas measureText returns are fractional, and   *)
(* the halves and quarters the code takes of them stay whole numbers.      *)
(***************************************************************************)
\* Math.floor in place of Math.round
MathRoundDown(n) == n \div 16

\* Math.round of n sixteenths, in whole pixels (a half rounds up)
MathRound(n) == (n + 8) \div 16

\* Math.ceil of n sixteenths, in whole pixels
MathCeil(n) == -((-n) \div 16)

\* applyQuestMode puts the class quest-profile on the body exactly when the
\* mode is not desktop
getQuestPivotShift(questMode, clientWidth) ==
    LET half == (clientWidth * 16) \div 4
    IN  IF questMode = "desktop" THEN 0
        ELSE IF questMode = "quest-left" THEN -half
        ELSE IF questMode = "quest-right" THEN half
        ELSE 0

\* the style of one .orp-pixel root: clientWidth and pivotOffsetPx in whole
\* pixels, the three widths in sixteenths, the result in whole pixels
applyPixelOrp(hostEl, clientWidth, pivotOffsetPx, questMode, leftW, centerW, rightW, directChild) ==
    LET questShift == IF hostEl = "rsvpLineNormal"
                      THEN getQuestPivotShift(questMode, clientWidth)
                      ELSE 0
        totalW == leftW + centerW + rightW
        pivotX == (clientWidth * 16) \div 2 + pivotOffsetPx * 16 + questShift
        rootLeft == pivotX - (leftW + centerW \div 2)
    IN  IF directChild
        THEN [width |-> MathCeil(totalW), position |-> "absolute",
              left |-> MathRound(rootLeft), translateX |-> 0]
        ELSE [width |-> MathCeil(totalW), position |-> "relative",
              left |-> 0,
              translateX |-> -MathRound(leftW + centerW \div 2 - totalW \div 2)]

(***************************************************************************)
(* applyPixelOrp called on its own                                         *)
(***************************************************************************)
\* widths of the host element, in pixels
ClientWidths == {800, 801}

\* values of the ORP offset input, in pixels
OrpPivotInputs == {-20, 0, 7}

QuestModes == {"desktop", "quest-left", "quest-right", "quest-both"}

\* measured widths of the left, the center and the right text, in sixteenths
TextWidths == [left |-> {0, 154, 320}, center |-> {160, 166}, right |-> {0, 202}]

PivotInit ==
    /\ PageInit
    /\ result = <<>>
    /\ \E h \in {"rsvpLineNormal", "rsvpLeftEye", "rsvpRightEye"},
          cw \in ClientWidths, po \in OrpPivotInputs, qm \in QuestModes,
          lw \in TextWidths.left, cn \in TextWidths.center,
          rw \in TextWidths.right,
          dc \in BOOLEAN :
          call = [fn |-> "applyPixelOrp", hostEl |-> h, clientWidth |-> cw,
                  pivotOffsetPx |-> po, questMode |-> qm, leftW |-> lw,
                  centerW |-> cn, rightW |-> rw, directChild |-> dc]

CallApplyPixelOrp ==
    /\ call.fn = "applyPixelOrp"
    /\ result = <<>>
    /\ result' = <<applyPixelOrp(call.hostEl, call.clientWidth,
                                 call.pivotOffsetPx, call.questMode, call.leftW,
                                 call.centerW, call.rightW, call.directChild)>>
    /\ UNCHANGED <<pageVars, call>>

PivotSpec == PivotInit /\ [][CallApplyPixelOrp]_vars

(***************************************************************************)
(* tokenize_for_rsvp called on its own, as build_payload calls it          *)
(***************************************************************************)
\* pieces of the texts: a word, a full stop on its own, words in straight
\* quotes, in curly quotes and in brackets, a word before a dash
TokenPieces ==
    {"a", ".", "\"b\"", LeftDoubleQuote \o "b" \o RightDoubleQuote, "(c)",
     "d" \o EmDash}

TokenInit ==
    /\ PageInit
    /\ result = <<>>
    /\ \E t \in Texts(TokenPieces, MaxWords) :
          call = [fn |-> "tokenize_for_rsvp", text |-> t]

CallTokenizeForRsvp ==
    /\ call.fn = "tokenize_for_rsvp"
    /\ result = <<>>
    /\ result' = <<tokenize_for_rsvp(call.text)>>
    /\ UNCHANGED <<pageVars, call>>

TokenSpec == TokenInit /\ [][CallTokenizeForRsvp]_vars

(***************************************************************************)
(* The pause multiplier called on its own, on the chunks of loaded texts   *)
(***************************************************************************)
\* a plain word and words before a comma, a full stop, a dash, an ellipsis
\* and a semicolon inside a bracket
PausePieces == {"a", "b,", "c.", "d" \o EmDash, "e...", "(f;)"}

\* the chunks of one and of two tokens of those texts
PauseChunks ==
    UNION {UNION {{buildChunksClient(tokenize_for_rsvp(t), n, FALSE, FALSE)[k] :
                     k \in 1..Len(buildChunksClient(tokenize_for_rsvp(t), n,
                                                    FALSE, FALSE))} :
                  n \in {1, 2}} :
           t \in Texts(PausePieces, MaxWords)}

\* values of the comma and the sentence pause inputs, in hundredths
PauseInputs == [comma |-> {100, 160}, sentence |-> {160, 220}]

PauseInit ==
    /\ PageInit
    /\ result = <<>>
    /\ \E fn \in {"estimatePauseMultiplier", "estimate_pause_multiplier"},
          c \in PauseChunks, cm \in PauseInputs.comma,
          sm \in PauseInputs.sentence :
          call = [fn |-> fn, chunk |-> c,
                  commaMult |-> clamp(cm, 100, 1000),
                  sentenceMult |-> clamp(sm, 100, 1000),
                  paraMult |-> clamp(paraPauseInput, 100, 2000)]

CallEstimatePauseMultiplier ==
    /\ call.fn = "estimatePauseMultiplier"
    /\ result = <<>>
    /\ result' = <<estimatePauseMultiplier(call.chunk, call.commaMult,
                                           call.sentenceMult, call.paraMult)>>
    /\ UNCHANGED <<pageVars, call>>

CallEstimatePauseMultiplierServer ==
    /\ call.fn = "estimate_pause_multiplier"
    /\ result = <<>>
    /\ result' = <<estimate_pause_multiplier(call.chunk, call.commaMult,
                                             call.sentenceMult, call.paraMult)>>
    /\ UNCHANGED <<pageVars, call>>

PauseNext ==
    \/ CallEstimatePauseMultiplier
    \/ CallEstimatePauseMultiplierServer

PauseSpec == PauseInit /\ [][PauseNext]_vars

(***************************************************************************)
(* Properties                                                              *)
(***************************************************************************)
LastIndex == Len(chunks) - 1

\* the delay of the Timing Model for the chunk shown after the step
DelayAfterStep ==
    currentDelayMs([Cur EXCEPT !.chunks = chunks', !.rsvpIndex = rsvpIndex',
                               !.wpmInput = wpmInput'])

\* n limited to 0..LastIndex, written out
Bounded(n) == IF n < 0 THEN 0 ELSE IF n > LastIndex THEN LastIndex ELSE n

\* C1: the playback index lies in 0..chunkCount-1 when there are chunks and
\* is 0 when there are none.
C1_IndexInBounds ==
    IF chunks = <<>> THEN rsvpIndex = 0
    ELSE rsvpIndex >= 0 /\ rsvpIndex <= Len(chunks) - 1

\* a rebuild has just run and the index sits on the last of several chunks
C1_Witness ==
    /\ lastOp = "configRebuild"
    /\ Len(chunks) > 1
    /\ rsvpIndex = Len(chunks) - 1

\* C2: at most one playback tick is pending at any time.
C2_AtMostOneTick == Cardinality(pending) <= 1

\* a tick has fired and rescheduled itself: one tick is pending
C2_Witness ==
    /\ lastOp = "tick"
    /\ playing
    /\ Cardinality(pending) = 1

\* C3: every state-mutating call cancels the pending tick before it changes
\* anything, so whatever tick is pending was scheduled against the current
\* chunk sequence and configuration: its delay is the Timing Model's delay
\* for the current state.
C3_NoStaleTick == \A t \in pending : t.delay = currentDelayMs(Cur)

\* C4: a tick that fires while Playing with index < lastIndex advances the
\* index by exactly one, stays Playing and schedules exactly one tick, whose
\* duration is the delay of the new current chunk.
C4_TickAdvances ==
    [][(lastOp' = "tick" /\ playing /\ rsvpIndex < LastIndex)
       => /\ rsvpIndex' = rsvpIndex + 1
          /\ playing'
          /\ Cardinality(pending') = 1
          /\ \A t \in pending' : t.delay = DelayAfterStep]_vars

\* a tick has advanced the index and playback goes on
C4_Witness ==
    /\ lastOp = "tick"
    /\ playing
    /\ rsvpIndex > 0
    /\ pending # {}

\* C5: a tick that fires while Playing with index = lastIndex pauses the
\* controller, leaves the index where it is and leaves no tick pending.
C5_TickAtEndPauses ==
    [][(lastOp' = "tick" /\ playing /\ rsvpIndex = LastIndex)
       => /\ ~playing'
          /\ rsvpIndex' = rsvpIndex
          /\ pending' = {}]_vars

\* a tick has ended playback on the last of several chunks
C5_Witness ==
    /\ lastOp = "tick"
    /\ ~playing
    /\ Len(chunks) > 1
    /\ rsvpIndex = Len(chunks) - 1
    /\ pending = {}

\* C6 as stated: play() while Paused at the last index leaves the controller
\* Paused, does not change the index and schedules no tick.
C6_Original ==
    [][(lastOp' = "play" /\ ~playing /\ rsvpIndex = LastIndex)
       => /\ ~playing'
          /\ rsvpIndex' = rsvpIndex
          /\ pending' = {}]_vars

\* C6 amended: play() while Paused at the last index does not change the
\* index; the controller becomes Playing with exactly one tick scheduled, for
\* the delay of the last chunk, and the tick that follows pauses it again
\* without advancing.
C6_PlayAtEnd ==
    [][/\ (lastOp' = "play" /\ ~playing /\ rsvpIndex = LastIndex)
          => /\ playing'
             /\ rsvpIndex' = rsvpIndex
             /\ Cardinality(pending') = 1
             /\ \A t \in pending' : t.delay = DelayAfterStep
       /\ (lastOp = "play" /\ lastOp' = "tick" /\ rsvpIndex = LastIndex)
          => /\ ~playing'
             /\ rsvpIndex' = rsvpIndex
             /\ pending' = {}]_vars

\* play() has just been called at the last index (here the only chunk)
C6_Witness ==
    /\ lastOp = "play"
    /\ rsvpIndex = Len(chunks) - 1
    /\ playing
    /\ pending # {}

\* C7: step(+1), step(-1) and seek(i) with a non-empty chunk sequence leave
\* the controller Paused with no tick pending and the index on the target
\* limited to 0..chunkCount-1, whether it was Playing or Paused.
C7_StepSeekPause ==
    [][/\ \A d \in {-1, 1} :
            (/\ lastOp' = "step"
             /\ chunks # <<>>
             /\ StepClick(d) \/ KeyDown(IF d = 1 THEN "ArrowRight" ELSE "ArrowLeft"))
            => /\ ~playing'
               /\ pending' = {}
               /\ rsvpIndex' = Bounded(rsvpIndex + d)
       /\ \A v \in 0..seekRangeMax :
            (/\ lastOp' = "seek"
             /\ chunks # <<>>
             /\ SeekInput(v))
            => /\ ~playing'
               /\ pending' = {}
               /\ rsvpIndex' = Bounded(v)]_vars

\* a step has moved the index after playback had been started
C7_Witness ==
    /\ lastOp = "step"
    /\ timer # 0
    /\ ~playing
    /\ pending = {}
    /\ rsvpIndex > 0

\* C8: whenever the chunk sequence is empty the controller is Idle: not
\* playing and no tick pending.
C8_EmptyIsIdle == chunks = <<>> => (~playing /\ pending = {})

\* C9: a failed load (unsupported type, no extractable text, extraction
\* exception, HTTP or network error) leaves filename, text, tokens, chunks
\* and index as they were.
C9_FailedLoadKeepsState ==
    [][lastOp' \in {"loadFailed", "loadRejected"}
       => UNCHANGED <<filename, text, tokens, chunks, rsvpIndex>>]_vars

\* a load has failed while a document read up to a later chunk is loaded
C9_Witness ==
    /\ lastOp = "loadFailed"
    /\ filename = "a.epub"
    /\ rsvpIndex > 0

\* C10: the chunk sequence is the Chunk Builder's output for the current
\* tokens and the current chunk size, phrase mode and skip-URLs settings, and
\* the index is within its bounds.
C10_ChunksMatchSettings ==
    /\ chunks = buildChunksClient(tokens, Max(1, Min(8, chunkSizeInput)),
                                  phraseModeInput, skipUrlsInput)
    /\ rsvpIndex <= Max(0, Len(chunks) - 1)

\* a setting has been changed to a non-default value on a loaded document
C10_Witness ==
    /\ lastOp = "configRebuild"
    /\ tokens # <<>>
    /\ chunkSizeInput = 2
    /\ phraseModeInput
    /\ ~skipUrlsInput
    /\ rsvpIndex > 0

(***************************************************************************)
(* Properties of the per-eye rendering                                     *)
(***************************************************************************)
\* the eye of the j-th unit counted from 0, the first one on the start eye
EyeOfCount(j, startRight) ==
    IF (j % 2 = 0) = startRight THEN "right" ELSE "left"

\* a part that is not punctuation only
HasAlnum(w) == \E i \in 1..Len(w) : CharAt(w, i) \in AlnumChars

\* the word occurrences of a chunk in display order
WordsOf(chunk) ==
    IF chunk = PARA THEN <<>> ELSE SelectSeq(SplitWs(chunk, 1), HasAlnum)

\* number of word occurrences in the first i chunks
RECURSIVE WordsBefore(_, _)
WordsBefore(cs, i) ==
    IF i = 0 THEN 0 ELSE Len(WordsOf(cs[i])) + WordsBefore(cs, i - 1)

\* C11: in round-robin mode the words of the whole chunk sequence, listed
\* in display order without the punctuation-only parts, alternate their
\* eyes from the start eye on, across the chunks and for every chunk size.
C11_RoundRobin ==
    (result # <<>> /\ call.fn = "renderPerEyeChunk" /\ call.pattern = "roundrobin") =>
        LET before == WordsBefore(call.chunks, call.rsvpIndex)
            eyes == result[1].eyes
        IN  /\ Len(eyes) = Len(WordsOf(call.chunks[call.rsvpIndex + 1]))
            /\ \A k \in 1..Len(eyes) :
                   eyes[k] = EyeOfCount(before + k - 1, call.startRight)

\* tok ends a sentence: . ! ? with closing quotes or brackets after it or not
RECURSIVE EndsSentence(_)
EndsSentence(tok) ==
    IF tok = "" THEN FALSE
    ELSE IF CharAt(tok, Len(tok)) \in {")", "]", "}", "'", "\""}
         THEN EndsSentence(SubSeq(tok, 1, Len(tok) - 1))
         ELSE CharAt(tok, Len(tok)) \in {".", "!", "?"}

SentenceEndsIn(chunk) ==
    IF chunk = PARA THEN 0
    ELSE Len(SelectSeq(SplitWs(chunk, 1), EndsSentence))

\* number of sentences that end within the first i chunks
RECURSIVE SentencesBefore(_, _)
SentencesBefore(cs, i) ==
    IF i = 0 THEN 0 ELSE SentenceEndsIn(cs[i]) + SentencesBefore(cs, i - 1)

\* the chunk lies within one sentence: none ends before its last token
WithinOneSentence(chunk) ==
    LET ts == SplitWs(chunk, 1)
    IN  \A k \in 1..(Len(ts) - 1) : ~EndsSentence(ts[k])

\* the eye that is shown first
LaneOf(payload) ==
    IF payload.reveal = "stagger-right-first" THEN "right" ELSE "left"

\* C12: in sentence mode the chunks of one sentence have the same eye, and
\* the eyes of consecutive sentences alternate from the start eye on,
\* however many chunks a sentence has.
C12_SentenceMode ==
    (/\ result # <<>>
     /\ call.fn = "renderPerEyeChunk"
     /\ call.pattern = "sentence"
     /\ call.chunks[call.rsvpIndex + 1] # PARA
     /\ WithinOneSentence(call.chunks[call.rsvpIndex + 1])) =>
        LaneOf(result[1])
            = EyeOfCount(SentencesBefore(call.chunks, call.rsvpIndex),
                         call.startRight)

(***************************************************************************)
(* Properties of the timing                                                *)
(***************************************************************************)
\* a Word of the tokenizer: an alphanumeric run with apostrophes and hyphens
\* inside
IsWord(t) == t # "" /\ WordLen(t, 1) = Len(t)

\* C13: with per-eye mode off, a chunk of one Word is shown for
\* floor(60000/WPM) ms, one Word with a full stop for floor(60000/WPM x
\* sentence multiplier) ms, a paragraph chunk for floor(60000/WPM x
\* paragraph multiplier) ms.
C13_WordDelay ==
    (result # <<>> /\ call.fn = "currentDelayMs" /\ ~call.stereoModeInput) =>
        LET chunk == call.chunks[call.rsvpIndex + 1]
            wpm == call.wpmInput
        IN  /\ IsWord(chunk) => result[1] = 60000 \div wpm
            /\ (/\ CharAt(chunk, Len(chunk)) = "."
                /\ IsWord(SubSeq(chunk, 1, Len(chunk) - 1)))
               => result[1] = (60000 * sentencePauseInput) \div (wpm * 100)
            /\ chunk = PARA
               => result[1] = (60000 * paraPauseInput) \div (wpm * 100)

\* C14: with per-eye mode on, the delay is the delay with per-eye mode off
\* plus the inter-lane delay.
C14_PerEyeDelay ==
    (result # <<>> /\ call.fn = "currentDelayMs" /\ call.stereoModeInput) =>
        result[1] = currentDelayMs([Cur EXCEPT !.chunks = call.chunks,
                                               !.rsvpIndex = call.rsvpIndex,
                                               !.wpmInput = call.wpmInput])
                    + call.lrDelayInput

(***************************************************************************)
(* Properties of the optimal recognition point                             *)
(***************************************************************************)
\* C15: a word of L alphanumeric characters has index 0 for L <= 1, 1 for
\* L <= 5, 2 for L <= 9, 3 for L <= 13 and 4 above; the index of every word
\* lies in 0..len-1; server and client return the same index.
C15_OrpIndex ==
    (result # <<>> /\ call.fn \in {"compute_orp_index", "computeOrpIndex"}) =>
        LET w == call.word
            L == Len(w)
        IN  /\ (\A i \in 1..L : CharAt(w, i) \in AlnumChars \cup NonAsciiLetters)
               => result[1] = (IF L <= 1 THEN 0 ELSE IF L <= 5 THEN 1
                               ELSE IF L <= 9 THEN 2 ELSE IF L <= 13 THEN 3
                               ELSE 4)
            /\ result[1] >= 0
            /\ result[1] <= L - 1
            /\ result[1] = compute_orp_index(w)
            /\ result[1] = computeOrpIndex(w)

\* C26: the bucket is chosen by the length of the word without its leading
\* non-word characters only (trailing punctuation counts), and the index is
\* that bucket plus the number of leading characters stripped, clamped to
\* 0..len-1.
C26_CoreLen ==
    (result # <<>> /\ call.fn \in {"compute_orp_index", "computeOrpIndex"}) =>
        LET w == call.word
            stripped == LeadLen(w, 1, PyWordChars)
            coreLen == Len(w) - stripped
        IN  result[1] = Max(0, Min(OrpBucket(coreLen) + stripped, Len(w) - 1))

\* twice the length without the non-alphanumeric edges, plus one for a
\* capital at the start
Score(tok) ==
    2 * Len(StripEdges(tok, AlnumChars))
    + (IF CharAt(tok, 1) \in UpperLetters THEN 1 ELSE 0)

\* the first token with the highest score
Best(ts) ==
    ts[CHOOSE i \in 1..Len(ts) :
          /\ \A j \in 1..Len(ts) : Score(ts[j]) <= Score(ts[i])
          /\ \A j \in 1..(i - 1) : Score(ts[j]) < Score(ts[i])]

\* C16: with ORP on, the focus of a chunk of two or more tokens is its
\* first token of the highest score, the focus of a chunk of one token is
\* that token.
C16_FocusWord ==
    (result # <<>> /\ call.fn = "buildOrpPlaceholder" /\ ~result[1].plain) =>
        LET ts == SplitWs(call.displayChunk, 1)
        IN  result[1].focus = IF Len(ts) = 1 THEN ts[1] ELSE Best(ts)

(***************************************************************************)
(* Properties of the chunk builders                                        *)
(***************************************************************************)
\* the tokens of a chunk sequence in order, a paragraph chunk as its marker
RECURSIVE ChunkTokens(_)
ChunkTokens(cs) ==
    IF cs = <<>> THEN <<>>
    ELSE (IF Head(cs) = PARA THEN <<PARA>> ELSE SplitWs(Head(cs), 1))
         \o ChunkTokens(Tail(cs))

CountOf(seq, x) == Cardinality({i \in 1..Len(seq) : seq[i] = x})

WithoutPara(seq) == SelectSeq(seq, LAMBDA t : t # PARA)

\* position i of t starts p, and a character other than a space follows
ThenNonSpace(t, i, p) ==
    /\ StartsWithAt(t, i, p)
    /\ i + Len(p) <= Len(t)
    /\ ~IsSpaceChar(CharAt(t, i + Len(p)))

\* the shapes http(s)://... and www....
LinkShaped(t) ==
    \E i \in 1..Len(t) : \/ ThenNonSpace(ToLower(t), i, "http://")
                         \/ ThenNonSpace(ToLower(t), i, "https://")
                         \/ ThenNonSpace(ToLower(t), i, "www.")

\* the shape domain.tld/...: a name, a dot, two or more letters, a slash
DomainShaped(t) ==
    \E i \in 2..Len(t) :
        /\ CharAt(t, i) = "."
        /\ CharAt(t, i - 1) \in AlnumChars \cup {"-"}
        /\ LET n == RunLen(t, i + 1, LowerLetters \cup UpperLetters)
           IN  n >= 2 /\ CharAt(t, i + 1 + n) = "/"

\* the tokens the chunks are to hold: all of them, or all but the links
Kept(toks, skipUrls) ==
    IF skipUrls THEN SelectSeq(toks, LAMBDA t : t = PARA \/ ~LinkShaped(t))
    ELSE toks

\* C17: in fixed mode every chunk other than a paragraph chunk holds 1..N
\* tokens, one with fewer than N stands right before a paragraph chunk or
\* at the end, every paragraph marker gives one paragraph chunk of its own,
\* and the chunks hold the tokens in their order, none across a marker.
C17_FixedMode ==
    (result # <<>> /\ ~call.phraseMode) =>
        LET cs == result[1]
            N == call.chunkSize
        IN  /\ \A i \in 1..Len(cs) :
                  cs[i] # PARA =>
                      LET n == Len(SplitWs(cs[i], 1))
                      IN  /\ n >= 1
                          /\ n <= N
                          /\ n < N => (i = Len(cs) \/ cs[i + 1] = PARA)
            /\ CountOf(cs, PARA) = CountOf(call.tokens, PARA)
            /\ ChunkTokens(cs) = Kept(call.tokens, call.skipUrls)

\* fixed mode, size 2: a full chunk, and a short one before a paragraph chunk
C17_Witness ==
    /\ result # <<>>
    /\ ~call.phraseMode
    /\ call.chunkSize = 2
    /\ \E i \in 1..(Len(result[1]) - 1) :
          /\ Len(SplitWs(result[1][i], 1)) = 1
          /\ result[1][i] # PARA
          /\ result[1][i + 1] = PARA
    /\ \E j \in 1..Len(result[1]) : Len(SplitWs(result[1][j], 1)) = 2

\* the closing quotes and brackets
ClosingChars == {")", "]", "}", "'", "\""}

\* tok ends with , ; : . ! ? (an ellipsis ends with a full stop), closing
\* quotes or brackets after it or not
RECURSIVE ClauseEnd(_)
ClauseEnd(tok) ==
    IF tok = "" THEN FALSE
    ELSE IF CharAt(tok, Len(tok)) \in ClosingChars
         THEN ClauseEnd(SubSeq(tok, 1, Len(tok) - 1))
         ELSE CharAt(tok, Len(tok)) \in {",", ";", ":", ".", "!", "?"}

\* C18: in phrase mode a chunk ends right after every token that ends a
\* clause or a sentence, whatever N is, and no chunk holds more than
\* max(3, N) tokens.
C18_PhraseMode ==
    (result # <<>> /\ call.phraseMode) =>
        \A i \in 1..Len(result[1]) :
            result[1][i] # PARA =>
                LET ts == SplitWs(result[1][i], 1)
                IN  /\ Len(ts) <= Max(3, call.chunkSize)
                    /\ \A k \in 1..(Len(ts) - 1) : ~ClauseEnd(ts[k])

\* C19: with skip-URLs on no chunk holds a token of one of the three link
\* shapes and every paragraph marker is still there; with skip-URLs off
\* the chunks hold every token.
C19_SkipUrls ==
    result # <<>> =>
        LET toks == ChunkTokens(result[1])
        IN  IF call.skipUrls
            THEN /\ \A k \in 1..Len(toks) :
                       ~LinkShaped(toks[k]) /\ ~DomainShaped(toks[k])
                 /\ CountOf(toks, PARA) = CountOf(call.tokens, PARA)
            ELSE toks = call.tokens

\* skip-URLs on, a link among the tokens, and a paragraph marker
C19_Witness ==
    /\ result # <<>>
    /\ call.skipUrls
    /\ \E k \in 1..Len(call.tokens) : LinkShaped(call.tokens[k])
    /\ CountOf(result[1], PARA) > 0
    /\ Len(result[1]) > 1

\* C20 as stated: the chunk texts other than paragraph chunks, joined and
\* split at white space, are the tokens without the paragraph markers, for
\* every setting.
C20_Original ==
    result # <<>> =>
        WithoutPara(ChunkTokens(result[1])) = WithoutPara(call.tokens)

\* C20: the chunk texts other than paragraph chunks, joined and split at
\* white space, are the tokens without the paragraph markers and, with
\* skip-URLs on, without the tokens of the shapes http(s)://... and www....
C20_RoundTrip ==
    result # <<>> =>
        WithoutPara(ChunkTokens(result[1]))
            = WithoutPara(Kept(call.tokens, call.skipUrls))

\* several tokens to a chunk, a link dropped, a paragraph break
C20_Witness ==
    /\ result # <<>>
    /\ call.skipUrls
    /\ call.phraseMode
    /\ Len(WithoutPara(ChunkTokens(result[1]))) < Len(WithoutPara(call.tokens))
    /\ \E i \in 1..Len(result[1]) : Len(SplitWs(result[1][i], 1)) = 3
    /\ CountOf(call.tokens, PARA) > 0

(***************************************************************************)
(* Properties of the page, continued                                       *)
(***************************************************************************)
\* C22: between event handlers a tick is pending exactly when state.playing
\* is true.
C22_TickIffPlaying == (pending # {}) <=> playing

\* paused out of a running playback: the tick that was pending is gone
C22_Witness ==
    /\ lastOp = "pause"
    /\ timer # 0
    /\ ~playing
    /\ pending = {}
    /\ chunks # <<>>

(***************************************************************************)
(* Properties of the tokenizer                                             *)
(***************************************************************************)
\* the marks . , ; : ! ? and the dashes (an ellipsis begins with a full stop)
MarkChars == {".", ",", ";", ":", "!", "?", EmDash, EnDash}

BeginsWithMark(tok) == CharAt(tok, 1) \in MarkChars

\* C27 as stated: a token that begins with a trailing punctuation mark is
\* the very first token of the sequence.
C27_Original ==
    (result # <<>> /\ call.fn = "tokenize_for_rsvp") =>
        \A k \in 2..Len(result[1]) : ~BeginsWithMark(result[1][k])

\* C27: a token that begins with a trailing punctuation mark is the very
\* first token of the sequence or stands right after a paragraph marker.
C27_MarkStartsToken ==
    (result # <<>> /\ call.fn = "tokenize_for_rsvp") =>
        \A k \in 2..Len(result[1]) :
            BeginsWithMark(result[1][k]) => result[1][k - 1] = PARA

\* a mark appended to the word before it, and one after a paragraph marker
C27_Witness ==
    /\ result # <<>>
    /\ call.fn = "tokenize_for_rsvp"
    /\ call.text = "a .\n\n."
    /\ result[1] = <<"a.", PARA, ".">>

\* position i of the text holds a closing quote or bracket right after a word
ClosesWord(s, i) ==
    /\ CharAt(s, i - 1) \in AlnumChars
    /\ CharAt(s, i + 1) \notin AlnumChars
    /\ CharAt(s, i) \in {")", "]", "}", "\"", "'", RightDoubleQuote,
                            RightSingleQuote}

\* position i of the s holds an opening quote or bracket right before a word
OpensWord(s, i) ==
    /\ CharAt(s, i + 1) \in AlnumChars
    /\ CharAt(s, i - 1) \notin AlnumChars
    /\ CharAt(s, i) \in {"(", "[", "{", "\"", "'", LeftDoubleQuote,
                            LeftSingleQuote}

\* C28: a closing quote or bracket right after a word is in the token of
\* that word, after the word; an opening quote or bracket right before a
\* word is in the token of that word, before the word.
C28_QuotesAndBrackets ==
    (result # <<>> /\ call.fn = "tokenize_for_rsvp") =>
        \A i \in 1..Len(call.text) :
            /\ ClosesWord(call.text, i)
               => \E k \in 1..Len(result[1]) :
                      Includes(result[1][k], SubSeq(call.text, i - 1, i))
            /\ OpensWord(call.text, i)
               => \E k \in 1..Len(result[1]) :
                      Includes(result[1][k], SubSeq(call.text, i, i + 1))

(***************************************************************************)
(* Properties of the pause multiplier                                      *)
(***************************************************************************)
\* C25: a chunk without an ellipsis that ends in a comma, a semicolon, a
\* colon or a dash gets exactly the comma multiplier, and one that ends in
\* sentence-ending punctuation gets the sentence multiplier.
C25_PauseClass ==
    (/\ result # <<>>
     /\ call.fn \in {"estimatePauseMultiplier", "estimate_pause_multiplier"}
     /\ call.chunk # PARA
     /\ ~Includes(call.chunk, "...")) =>
        LET last == CharAt(call.chunk, Len(call.chunk))
        IN  /\ last \in {",", ";", ":", EmDash, EnDash}
               => result[1] = call.commaMult
            /\ last \in {".", "!", "?"} => result[1] = call.sentenceMult

(***************************************************************************)
(* Properties of the pivot alignment                                       *)
(***************************************************************************)
\* host centre + global pivot offset + lane shift, in sixteenths of a pixel
TargetX ==
    (call.clientWidth * 16) \div 2 + call.pivotOffsetPx * 16
    + (IF call.hostEl = "rsvpLineNormal" /\ call.questMode = "quest-left"
       THEN -((call.clientWidth * 16) \div 4)
       ELSE IF call.hostEl = "rsvpLineNormal" /\ call.questMode = "quest-right"
       THEN (call.clientWidth * 16) \div 4
       ELSE 0)

\* where the middle of the center glyph is placed, in sixteenths of a pixel
CenterMidpoint == result[1].left * 16 + call.leftW + call.centerW \div 2

SingleOrpRendered ==
    result # <<>> /\ call.fn = "applyPixelOrp" /\ call.directChild

HoldsDocument(f) ==
    /\ filename = f.name
    /\ text = f.text
    /\ tokens = tokenize_for_rsvp(f.text)
    /\ chunks = buildChunksClient(tokens, clamp(chunkSizeInput, 1, 8),
                                  phraseModeInput, skipUrlsInput)

\* C30: once the responses of two overlapping loads have been handled, the
\* page holds the document of the request issued last, whatever the order of
\* arrival; and filename, text, tokens and chunks are always those of one
\* document.
C30_LastRequestWins ==
    /\ (/\ call.fn = "loadFile"
        /\ call.overlapping
        /\ inflight = <<>>
        /\ \E f \in Files : f.name = call.file /\ api_extract(f).httpOk)
       => filename = call.file
    /\ (call.fn = "loadFile" /\ filename # "")
       => \E f \in Files : HoldsDocument(f)

(***************************************************************************)
(* Properties of the settings inputs                                       *)
(***************************************************************************)
\* C23: a change of WPM, the ORP flag, the pivot offset, a pause multiplier,
\* the per-eye flag, the eye pattern, the start eye or the inter-lane delay
\* leaves the chunks, the tokens, the playback index and the playing flag as
\* they were.
C23_RenderOnlyFrame ==
    [][lastOp' = "configRender"
         => UNCHANGED <<chunks, tokens, rsvpIndex, playing>>]_vars

\* the per-eye flag was switched on in the middle of a running playback
C23_Witness ==
    /\ lastOp = "configRender"
    /\ playing
    /\ rsvpIndex > 0
    /\ stereoModeInput
    /\ reveals # {}

(***************************************************************************)
(* Properties of playback left to itself                                   *)
(***************************************************************************)
\* C24: a page that plays a non-empty chunk sequence and gets no input ends
\* up paused on the last chunk; till then the index never decreases and each
\* tick shows the next chunk, so that every chunk from the start to the last
\* is shown once.
C24_PlaysToEnd ==
    /\ <>[](~playing /\ rsvpIndex = LastIndex /\ pending = {})
    /\ [][/\ rsvpIndex' >= rsvpIndex
          /\ lastOp' = "tick" =>
                \/ rsvpIndex' = rsvpIndex + 1 /\ playing'
                \/ /\ rsvpIndex = LastIndex
                   /\ rsvpIndex' = rsvpIndex
                   /\ ~playing']_vars

\* the playback ran over three chunks or more and stopped on the last
C24_Witness ==
    /\ lastOp = "tick"
    /\ ~playing
    /\ rsvpIndex = LastIndex
    /\ Len(chunks) >= 3
    /\ pending = {}

\* C29: in per-eye mode both lanes are visible by the time a tick replaces
\* the chunk, and a reveal timeout never fires for a chunk other than the
\* one shown.
C29_BothLanesShown ==
    [][/\ (lastOp' = "tick" /\ stereoModeInput /\ rsvpIndex' # rsvpIndex)
            => (leftEyeOpacity = 1 /\ rightEyeOpacity = 1)
       /\ lastOp' = "reveal"
            => \A r \in reveals \ reveals' : r.index = rsvpIndex]_vars
====
